---------------------------- MODULE Spec2Model ----------------------------
(***************************************************************************)
(* A model of vtq's Coordinator (src/vtq/coordinator/coordinator.py): the  *)
(* task table, the virtual queue (VQ) table and the task error table of    *)
(* one workspace, and the public calls enqueue, receive (_read), ack and   *)
(* nack working on them.                                                   *)
(*                                                                         *)
(* Time is a clock of whole seconds.  _read runs two separate store        *)
(* transactions (the select, then the conditional update): other calls     *)
(* may run between the two, so each _read of a receive is modelled as the  *)
(* two steps ReadSelect and ReadClaim of a consumer.  enqueue, ack and     *)
(* nack each run inside one store transaction and are one step each.       *)
(***************************************************************************)
EXTENDS Integers, Sequences, FiniteSets, TLC

VARIABLES
    tasks,    \* the task table: a sequence of rows, a row's id is its index
    vqs,      \* the VQ table: a function from the names of the existing VQs to rows
    errors,   \* the task error table: a sequence of rows
    now,      \* the clock, time.time()
    cs,       \* per consumer: where its receive call stands, and its locals
    ret,      \* per consumer: what its latest receive call has returned
    last,     \* the call the latest step completed, and what it returned
    rt,       \* an enqueue, receive(1), ack, ack round trip, as far as it got
    ops       \* per caller: where its enqueue, ack, nack or requeue call stands

vars == <<tasks, vqs, errors, now, cs, ret, last, rt, ops>>

----------------------------------------------------------------------------
(* Bounds of the model *)

MaxTasks == 2
MaxTime == 2

(* Program constants *)

INVISIBLE_TIMESTAMP_SECONDS == 2147483647
StatusLeased == 50
StatusSucceeded == 100
StatusFailed == 101
UnstartedLimit == 10
StatusUnstarted == 0
NoEndedAt == -1

Consumers == {"c1", "c2"}
Callers == {"w1", "w2"}
SeqConsumer == "c1"
SeqVQNames == {"qa", "qb"}
BucketVQNames == {"qa", "qd"}
ConcVQNames == {"qa", "qc"}
Payloads == {"x", "y"}
Priorities == {1, 2}
DelayMillis == {0, 1000}
MaxNumbers == {1, 2}
ErrorMessages == {"", "boom"}
TaskIdArgs == 0..MaxTasks

(* The configuration provider: the static policy of each VQ name. *)
configuration_for(name) ==
    CASE name = "qa" -> [priority |-> 10, bucket_name |-> "b1", bucket_weight |-> 1,
                         visibility_timeout_seconds |-> 1]
      [] name = "qb" -> [priority |-> 10, bucket_name |-> "b1", bucket_weight |-> 3,
                         visibility_timeout_seconds |-> 2]
      [] name = "qd" -> [priority |-> 10, bucket_name |-> "b2", bucket_weight |-> 2,
                         visibility_timeout_seconds |-> 1]
      [] OTHER       -> [priority |-> 5, bucket_name |-> "b1", bucket_weight |-> 1,
                         visibility_timeout_seconds |-> 1]

----------------------------------------------------------------------------
(* Status predicates of vtq.coordinator.task *)

is_succeeded(t) == t.status = StatusSucceeded
is_failed(t) == t.status = StatusFailed
is_wip(t) == t.status = StatusLeased

----------------------------------------------------------------------------
(* The state after construction *)

NoSel == [id |-> 0, data |-> "", vqueue_name |-> "", priority |-> 0,
          vq_visibility_timeout |-> 0]

IdleConsumer == [pc |-> "idle", max_number |-> 0, wait |-> 0, ts |-> 0,
                 sel |-> NoSel, out |-> <<>>]

(* kind: "none", "running", "list" (returned) or "NotImplementedError"     *)
(* (raised); list: the tasks _read has returned to the call; rows and       *)
(* pending: for each of them, the rows its conditional update changed and   *)
(* whether the task was unstarted when it was selected; cand: whether the   *)
(* task selected last was unstarted then.                                   *)
NoRet == [kind |-> "none", list |-> <<>>, rows |-> <<>>, pending |-> <<>>,
          cand |-> FALSE]

(* op: the call; id: the task id it was given or returned; msg: the error  *)
(* message it was given; was: the status ack and nack read, -1 when they   *)
(* found no task; ok: the boolean returned (for receive: it returned a     *)
(* list, which is `list`); val: what requeue returned, "True", "False" or  *)
(* "None".                                                                 *)
NoCall == [op |-> "none", id |-> 0, msg |-> "", was |-> -1, ok |-> FALSE,
           val |-> "", list |-> <<>>]

(* pc: "idle", or the statement the call runs next; op: the call; id: the  *)
(* task id it was given or returned; task: the arguments of the task an    *)
(* enqueue is inserting; msg: the error message given; kind: "none",       *)
(* "returned" or the exception raised; val: the value returned; made: the  *)
(* names of the VQ rows the caller's inserts have created.                 *)
NoTask == [data |-> "", vqueue_name |-> "", priority |-> 0, visible_at |-> 0]

NoOp == [pc |-> "idle", op |-> "none", id |-> 0, task |-> NoTask, msg |-> "",
         kind |-> "none", val |-> "", made |-> <<>>]

RtNone == [stage |-> 0, id |-> 0, data |-> "", recv |-> <<>>, ack1 |-> FALSE, ack2 |-> FALSE]

Init ==
    /\ tasks = <<>>
    /\ vqs = <<>>
    /\ errors = <<>>
    /\ now = 1
    /\ cs = [p \in Consumers |-> IdleConsumer]
    /\ ret = [p \in Consumers |-> NoRet]
    /\ last = NoCall
    /\ rt = RtNone
    /\ ops = [w \in Callers |-> NoOp]

----------------------------------------------------------------------------
(* enqueue *)

EnqueueVisibleAt(delay_millis) ==
    IF delay_millis # 0 THEN now + (delay_millis \div 1000) ELSE 0

NewTask(task_data, vqueue_name, priority, visible_at) ==
    [id |-> Len(tasks) + 1, data |-> task_data, vqueue_name |-> vqueue_name,
     priority |-> priority, status |-> StatusUnstarted, visible_at |-> visible_at,
     queued_at |-> now, ended_at |-> NoEndedAt]

(* a VQ insert that passes the name only and leaves the policy columns out *)
NewVq_NoPolicy(vqueue_name) ==
    [name |-> vqueue_name, priority |-> 0, bucket_name |-> "", bucket_weight |-> 0,
     visibility_timeout |-> 0, hidden |-> FALSE]

NewVq(vqueue_name) ==
    LET vq_config == configuration_for(vqueue_name)
    IN  [name |-> vqueue_name, priority |-> vq_config.priority,
         bucket_name |-> vq_config.bucket_name,
         bucket_weight |-> vq_config.bucket_weight,
         visibility_timeout |-> vq_config.visibility_timeout_seconds,
         hidden |-> FALSE]

VqsWith(vqueue_name) ==
    IF vqueue_name \in DOMAIN vqs THEN vqs
    ELSE [n \in DOMAIN vqs \cup {vqueue_name} |->
            IF n = vqueue_name THEN NewVq(vqueue_name) ELSE vqs[n]]

Enqueue(task_data, vqueue_name, priority, delay_millis) ==
    /\ Len(tasks) < MaxTasks
    /\ LET task == NewTask(task_data, vqueue_name, priority, EnqueueVisibleAt(delay_millis))
       IN  /\ tasks' = Append(tasks, task)
           /\ vqs' = VqsWith(vqueue_name)
    /\ UNCHANGED <<errors, now, cs>>

----------------------------------------------------------------------------
(* receive and _read *)

AvailableTasks(ts) ==
    {i \in DOMAIN tasks :
        /\ tasks[i].vqueue_name \in DOMAIN vqs
        /\ ~vqs[tasks[i].vqueue_name].hidden
        /\ ts >= tasks[i].visible_at}

VqPriorityOf(i) == vqs[tasks[i].vqueue_name].priority

MaxVqPriority(ts) ==
    CHOOSE m \in {VqPriorityOf(i) : i \in AvailableTasks(ts)} :
        \A i \in AvailableTasks(ts) : VqPriorityOf(i) <= m

(* a selection that skips the layer filter of the available rows *)
PriorityLayer_NoLayer(ts) == AvailableTasks(ts)

PriorityLayer(ts) ==
    {i \in AvailableTasks(ts) : VqPriorityOf(i) = MaxVqPriority(ts)}

(* an ordering with the priority column ascending *)
OrderedBefore_PriorityAsc(i, j) ==
    \/ tasks[i].priority < tasks[j].priority
    \/ /\ tasks[i].priority = tasks[j].priority
       /\ tasks[i].queued_at < tasks[j].queued_at

(* order_by(priority.desc(), queued_at.asc()): row i sorts before row j *)
OrderedBefore(i, j) ==
    \/ tasks[i].priority > tasks[j].priority
    \/ /\ tasks[i].priority = tasks[j].priority
       /\ tasks[i].queued_at < tasks[j].queued_at

(* .first(): a row no other row sorts before; rows that tie come in any order *)
FirstTasks(ts) ==
    {i \in PriorityLayer(ts) : \A j \in PriorityLayer(ts) : ~OrderedBefore(j, i)}

SelectedRow(i) ==
    [id |-> tasks[i].id, data |-> tasks[i].data, vqueue_name |-> tasks[i].vqueue_name,
     priority |-> tasks[i].priority,
     vq_visibility_timeout |-> vqs[tasks[i].vqueue_name].visibility_timeout]

(* receive's locals when it calls _read: a call that starts has an empty list *)
ReceiveCall(p, max_number, wait_time_seconds) ==
    IF cs[p].pc = "idle"
    THEN [IdleConsumer EXCEPT !.max_number = max_number, !.wait = wait_time_seconds]
    ELSE cs[p]

(* `if tasks or wait_time_seconds <= 0: return tasks`, else NotImplementedError *)
EmptyReadReturns(c) == c.out # <<>> \/ c.wait <= 0

(* receive's loop test and, in _read, the first transaction: the select.  A  *)
(* receive call starts with this step.                                       *)
ReadSelect(p, max_number, wait_time_seconds) ==
    /\ \/ cs[p].pc = "idle"
       \/ /\ cs[p].pc = "read"
          /\ max_number = cs[p].max_number
          /\ wait_time_seconds = cs[p].wait
    /\ LET c == ReceiveCall(p, max_number, wait_time_seconds)
       IN  IF AvailableTasks(now) = {}
           THEN cs' = [cs EXCEPT ![p] = IdleConsumer]
           ELSE \E i \in FirstTasks(now) :
                    cs' = [cs EXCEPT ![p] = [c EXCEPT !.pc = "claim", !.ts = now,
                                                      !.sel = SelectedRow(i)]]
    /\ UNCHANGED <<tasks, vqs, errors, now>>

(* the WHERE clause of the conditional update, for the row with the selected id *)
ClaimMatches(sel, ts) ==
    /\ sel.id \in DOMAIN tasks
    /\ sel.vqueue_name \in DOMAIN vqs
    /\ ~vqs[sel.vqueue_name].hidden
    /\ tasks[sel.id].vqueue_name = sel.vqueue_name
    /\ tasks[sel.id].status < UnstartedLimit
    /\ tasks[sel.id].visible_at <= ts

ClaimUpdate(sel, ts) ==
    IF ClaimMatches(sel, ts)
    THEN [tasks EXCEPT ![sel.id].status = StatusLeased,
                       ![sel.id].visible_at = sel.vq_visibility_timeout + ts]
    ELSE tasks

ReturnedTask(sel) == [id |-> sel.id, data |-> sel.data]

(* the list receive holds once _read has returned the selected task *)
ReceivedList(c) == Append(c.out, ReturnedTask(c.sel))

(* the second transaction of _read: the conditional update, then _read's     *)
(* return of the selected task and receive's loop test                       *)
ReadClaim(p) ==
    /\ cs[p].pc = "claim"
    /\ tasks' = ClaimUpdate(cs[p].sel, cs[p].ts)
    /\ cs' = [cs EXCEPT ![p] =
                IF Len(ReceivedList(cs[p])) < cs[p].max_number
                THEN [cs[p] EXCEPT !.pc = "read", !.out = ReceivedList(cs[p]),
                                   !.sel = NoSel, !.ts = 0]
                ELSE IdleConsumer]
    /\ UNCHANGED <<vqs, errors, now>>

----------------------------------------------------------------------------
(* ack and nack *)

(* an ack without the early return for a task that has succeeded *)
AckResult_NoSucceededCheck(task_id) ==
    IF task_id \notin DOMAIN tasks THEN FALSE
    ELSE IF ~is_wip(tasks[task_id]) THEN FALSE
    ELSE TRUE

AckResult(task_id) ==
    IF task_id \notin DOMAIN tasks THEN FALSE
    ELSE IF is_succeeded(tasks[task_id]) THEN TRUE
    ELSE IF ~is_wip(tasks[task_id]) THEN FALSE
    ELSE TRUE

AckWrites(task_id) ==
    /\ task_id \in DOMAIN tasks
    /\ ~is_succeeded(tasks[task_id])
    /\ is_wip(tasks[task_id])

(* a save that leaves ended_at as it was *)
AckSave_NoEndedAt(task_id) ==
    [tasks EXCEPT ![task_id].status = StatusSucceeded,
                  ![task_id].visible_at = INVISIBLE_TIMESTAMP_SECONDS]

AckSave(task_id) ==
    [tasks EXCEPT ![task_id].status = StatusSucceeded,
                  ![task_id].visible_at = INVISIBLE_TIMESTAMP_SECONDS,
                  ![task_id].ended_at = now]

Ack(task_id) ==
    /\ tasks' = IF AckWrites(task_id) THEN AckSave(task_id) ELSE tasks
    /\ UNCHANGED <<vqs, errors, now, cs>>

(* a nack without the early return for a task that has failed *)
NackResult_NoFailedCheck(task_id) ==
    IF task_id \notin DOMAIN tasks THEN FALSE
    ELSE IF ~is_wip(tasks[task_id]) THEN FALSE
    ELSE TRUE

NackResult(task_id) ==
    IF task_id \notin DOMAIN tasks THEN FALSE
    ELSE IF is_failed(tasks[task_id]) THEN TRUE
    ELSE IF ~is_wip(tasks[task_id]) THEN FALSE
    ELSE TRUE

(* a nack without the return for a task that is not in progress *)
NackWrites_NoWipCheck(task_id) ==
    /\ task_id \in DOMAIN tasks
    /\ ~is_failed(tasks[task_id])

NackWrites(task_id) ==
    /\ task_id \in DOMAIN tasks
    /\ ~is_failed(tasks[task_id])
    /\ is_wip(tasks[task_id])

(* a save that leaves visible_at as it was *)
NackSave_NoVisibleAt(task_id) ==
    [tasks EXCEPT ![task_id].status = StatusFailed,
                  ![task_id].ended_at = now]

NackSave(task_id) ==
    [tasks EXCEPT ![task_id].status = StatusFailed,
                  ![task_id].visible_at = INVISIBLE_TIMESTAMP_SECONDS,
                  ![task_id].ended_at = now]

(* a nack that records an error whatever the message *)
NackErrors_AnyMessage(task_id, error_messsage) ==
    Append(errors, [task_id |-> task_id, error_messsage |-> error_messsage,
                    happended_at |-> now])

NackErrors(task_id, error_messsage) ==
    IF error_messsage # ""
    THEN Append(errors, [task_id |-> task_id, error_messsage |-> error_messsage,
                         happended_at |-> now])
    ELSE errors

Nack(task_id, error_messsage) ==
    /\ tasks' = IF NackWrites(task_id) THEN NackSave(task_id) ELSE tasks
    /\ errors' = IF NackWrites(task_id) THEN NackErrors(task_id, error_messsage) ELSE errors
    /\ UNCHANGED <<vqs, now, cs>>

----------------------------------------------------------------------------
(* The environment: the clock, and the admission controller's hidden flag *)

Tick ==
    /\ now < MaxTime
    /\ now' = now + 1
    /\ UNCHANGED <<tasks, vqs, errors, cs>>

SetHidden(vqueue_name, hidden) ==
    /\ vqueue_name \in DOMAIN vqs
    /\ vqs[vqueue_name].hidden # hidden
    /\ vqs' = [vqs EXCEPT ![vqueue_name].hidden = hidden]
    /\ UNCHANGED <<tasks, errors, now, cs>>

----------------------------------------------------------------------------
(* Concurrent callers: producers, consumers and the clock.  Every consumer  *)
(* calls receive(1, 0) again and again; `ret` keeps what its latest call   *)
(* returned.                                                               *)

ClaimRows(sel, ts) == IF ClaimMatches(sel, ts) THEN 1 ELSE 0

ConsSelect(p, max_number, wait_time_seconds) ==
    /\ ReadSelect(p, max_number, wait_time_seconds)
    /\ LET c == ReceiveCall(p, max_number, wait_time_seconds)
           r == IF cs[p].pc = "idle" THEN [NoRet EXCEPT !.kind = "running"] ELSE ret[p]
       IN  ret' = [ret EXCEPT ![p] =
                     IF cs'[p].pc # "idle"
                     THEN [r EXCEPT !.cand = tasks[cs'[p].sel.id].status < UnstartedLimit]
                     ELSE IF EmptyReadReturns(c) THEN [r EXCEPT !.kind = "list"]
                     ELSE [r EXCEPT !.kind = "NotImplementedError"]]
    /\ UNCHANGED <<last, rt, ops>>

ConsClaim(p) ==
    /\ ReadClaim(p)
    /\ ret' = [ret EXCEPT ![p] =
                 [kind |-> IF cs'[p].pc = "idle" THEN "list" ELSE "running",
                  list |-> ReceivedList(cs[p]),
                  rows |-> Append(ret[p].rows, ClaimRows(cs[p].sel, cs[p].ts)),
                  pending |-> Append(ret[p].pending, ret[p].cand),
                  cand |-> FALSE]]
    /\ UNCHANGED <<last, rt, ops>>

ConcEnqueue(task_data, vqueue_name, priority, delay_millis) ==
    /\ Enqueue(task_data, vqueue_name, priority, delay_millis)
    /\ UNCHANGED <<ret, last, rt, ops>>

ConcAck(task_id) ==
    /\ Ack(task_id)
    /\ UNCHANGED <<ret, last, rt, ops>>

ConcNack(task_id, error_messsage) ==
    /\ Nack(task_id, error_messsage)
    /\ UNCHANGED <<ret, last, rt, ops>>

ConcTick ==
    /\ Tick
    /\ UNCHANGED <<ret, last, rt, ops>>

Next ==
    \/ \E v \in ConcVQNames, pr \in Priorities, dl \in DelayMillis :
           ConcEnqueue("x", v, pr, dl)
    \/ \E p \in Consumers : ConsSelect(p, 1, 0)
    \/ \E p \in Consumers : ConsClaim(p)
    \/ \E i \in TaskIdArgs : ConcAck(i)
    \/ \E i \in TaskIdArgs : ConcNack(i, "")
    \/ ConcTick

Spec == Init /\ [][Next]_vars

(* The same callers, and an admission controller that hides and shows VQs *)

AdmissionSetHidden(vqueue_name, hidden) ==
    /\ SetHidden(vqueue_name, hidden)
    /\ UNCHANGED <<ret, last, rt, ops>>

HiddenNext ==
    \/ \E v \in ConcVQNames, pr \in Priorities, dl \in DelayMillis :
           ConcEnqueue("x", v, pr, dl)
    \/ \E p \in Consumers : ConsSelect(p, 1, 0)
    \/ \E p \in Consumers : ConsClaim(p)
    \/ \E i \in TaskIdArgs : ConcAck(i)
    \/ \E i \in TaskIdArgs : ConcNack(i, "")
    \/ ConcTick
    \/ \E v \in ConcVQNames, h \in BOOLEAN : AdmissionSetHidden(v, h)

HiddenSpec == Init /\ [][HiddenNext]_vars

(* Consumers whose results are not kept, a producer of tasks without      *)
(* delay, the clock and the admission controller                          *)

LayerSelect(p) ==
    /\ ReadSelect(p, 1, 0)
    /\ UNCHANGED <<ret, last, rt, ops>>

LayerClaim(p) ==
    /\ ReadClaim(p)
    /\ UNCHANGED <<ret, last, rt, ops>>

LayerNext ==
    \/ \E v \in ConcVQNames, pr \in Priorities : ConcEnqueue("x", v, pr, 0)
    \/ \E p \in Consumers : LayerSelect(p)
    \/ \E p \in Consumers : LayerClaim(p)
    \/ ConcTick
    \/ \E v \in ConcVQNames, h \in BOOLEAN : AdmissionSetHidden(v, h)

LayerSpec == Init /\ [][LayerNext]_vars

----------------------------------------------------------------------------
(* One caller that makes one call after the other, and the clock, which    *)
(* advances between calls.  `rt` follows an enqueue without delay, the     *)
(* receive(1) that comes next, and the acks of the enqueued id after it.   *)

Idle == \A p \in Consumers : cs[p].pc = "idle"

(* no task but task_id is due: visible by now, in a VQ that is not hidden *)
NoOtherDue(task_id) == AvailableTasks(now) \subseteq {task_id}

SeqEnqueue(task_data, vqueue_name, priority, delay_millis) ==
    /\ Idle
    /\ Enqueue(task_data, vqueue_name, priority, delay_millis)
    /\ rt' = IF delay_millis = 0
             THEN [RtNone EXCEPT !.stage = 1, !.id = Len(tasks) + 1, !.data = task_data]
             ELSE RtNone
    /\ UNCHANGED <<ret, last, ops>>

(* a receive call starts: the round trip goes on when it is receive(1) and  *)
(* the enqueued task is the only due one                                    *)
RtReceiving(max_number) ==
    IF cs[SeqConsumer].pc = "idle"
    THEN rt.stage = 1 /\ max_number = 1 /\ NoOtherDue(rt.id)
    ELSE rt.stage = 2

SeqReadSelect(max_number, wait_time_seconds) ==
    /\ ReadSelect(SeqConsumer, max_number, wait_time_seconds)
    /\ LET c == ReceiveCall(SeqConsumer, max_number, wait_time_seconds)
       IN  rt' = IF ~RtReceiving(max_number) THEN RtNone
                 ELSE IF cs'[SeqConsumer].pc # "idle" THEN [rt EXCEPT !.stage = 2]
                 ELSE IF EmptyReadReturns(c) THEN [rt EXCEPT !.stage = 3, !.recv = c.out]
                 ELSE RtNone
    /\ UNCHANGED <<ret, last, ops>>

SeqReadClaim ==
    /\ ReadClaim(SeqConsumer)
    /\ rt' = IF rt.stage = 2 /\ cs'[SeqConsumer].pc = "idle"
             THEN [rt EXCEPT !.stage = 3, !.recv = ReceivedList(cs[SeqConsumer])]
             ELSE RtNone
    /\ UNCHANGED <<ret, last, ops>>

SeqAck(task_id) ==
    /\ Idle
    /\ Ack(task_id)
    /\ rt' = IF rt.stage = 3 /\ task_id = rt.id
             THEN [rt EXCEPT !.stage = 4, !.ack1 = AckResult(task_id)]
             ELSE IF rt.stage = 4 /\ task_id = rt.id
             THEN [rt EXCEPT !.stage = 5, !.ack2 = AckResult(task_id)]
             ELSE RtNone
    /\ UNCHANGED <<ret, last, ops>>

SeqTick ==
    /\ Idle
    /\ Tick
    /\ UNCHANGED <<ret, last, rt, ops>>

SeqNext ==
    \/ \E d \in Payloads, v \in SeqVQNames, pr \in Priorities :
           SeqEnqueue(d, v, pr, 0)
    \/ \E n \in MaxNumbers : SeqReadSelect(n, 0)
    \/ SeqReadClaim
    \/ \E i \in TaskIdArgs : SeqAck(i)
    \/ SeqTick

SeqSpec == Init /\ [][SeqNext]_vars

----------------------------------------------------------------------------
(* One caller of enqueue, receive(1), ack and nack, and the clock.  `last` *)
(* is the call the latest step completed, and what it returned.            *)

StatusRead(task_id) == IF task_id \in DOMAIN tasks THEN tasks[task_id].status ELSE -1

CallEnqueue(task_data, vqueue_name, priority, delay_millis) ==
    /\ Idle
    /\ Enqueue(task_data, vqueue_name, priority, delay_millis)
    /\ last' = [NoCall EXCEPT !.op = "enqueue", !.id = Len(tasks) + 1, !.ok = TRUE]
    /\ UNCHANGED <<ret, rt, ops>>

CallReadSelect(max_number, wait_time_seconds) ==
    /\ ReadSelect(SeqConsumer, max_number, wait_time_seconds)
    /\ LET c == ReceiveCall(SeqConsumer, max_number, wait_time_seconds)
       IN  last' = IF cs'[SeqConsumer].pc = "idle"
                   THEN [NoCall EXCEPT !.op = "receive", !.ok = EmptyReadReturns(c),
                                       !.list = c.out]
                   ELSE NoCall
    /\ UNCHANGED <<ret, rt, ops>>

CallReadClaim ==
    /\ ReadClaim(SeqConsumer)
    /\ last' = IF cs'[SeqConsumer].pc = "idle"
               THEN [NoCall EXCEPT !.op = "receive", !.ok = TRUE,
                                   !.list = ReceivedList(cs[SeqConsumer])]
               ELSE NoCall
    /\ UNCHANGED <<ret, rt, ops>>

CallAck(task_id) ==
    /\ Idle
    /\ Ack(task_id)
    /\ last' = [NoCall EXCEPT !.op = "ack", !.id = task_id, !.was = StatusRead(task_id),
                              !.ok = AckResult(task_id)]
    /\ UNCHANGED <<ret, rt, ops>>

CallNack(task_id, error_messsage) ==
    /\ Idle
    /\ Nack(task_id, error_messsage)
    /\ last' = [NoCall EXCEPT !.op = "nack", !.id = task_id, !.msg = error_messsage,
                              !.was = StatusRead(task_id), !.ok = NackResult(task_id)]
    /\ UNCHANGED <<ret, rt, ops>>

CallTick ==
    /\ Idle
    /\ Tick
    /\ last' = NoCall
    /\ UNCHANGED <<ret, rt, ops>>

CallNext ==
    \/ \E pr \in Priorities : CallEnqueue("x", "qa", pr, 0)
    \/ CallReadSelect(1, 0)
    \/ CallReadClaim
    \/ \E i \in TaskIdArgs : CallAck(i)
    \/ \E i \in TaskIdArgs, m \in ErrorMessages : CallNack(i, m)
    \/ CallTick

CallSpec == Init /\ [][CallNext]_vars

----------------------------------------------------------------------------
(* requeue, for the single caller of CallSpec *)

(* Task.is_unstarted of vtq.model *)
is_unstarted(t) == t.status < UnstartedLimit

(* the value requeue returns; "None" where the function body ends at the TODO *)
RequeueResult(task_id) ==
    IF task_id \notin DOMAIN tasks THEN "False"
    ELSE IF is_unstarted(tasks[task_id]) THEN "True"
    ELSE IF ~is_wip(tasks[task_id]) THEN "False"
    ELSE "None"

Requeue(task_id) ==
    UNCHANGED <<tasks, vqs, errors, now, cs>>

CallRequeue(task_id) ==
    /\ Idle
    /\ Requeue(task_id)
    /\ last' = [NoCall EXCEPT !.op = "requeue", !.id = task_id,
                              !.was = StatusRead(task_id),
                              !.val = RequeueResult(task_id)]
    /\ UNCHANGED <<ret, rt, ops>>

RequeueNext ==
    \/ \E pr \in Priorities : CallEnqueue("x", "qa", pr, 0)
    \/ CallReadSelect(1, 0)
    \/ CallReadClaim
    \/ \E i \in TaskIdArgs : CallAck(i)
    \/ \E i \in TaskIdArgs : CallNack(i, "")
    \/ \E i \in TaskIdArgs : CallRequeue(i)
    \/ CallTick

RequeueSpec == Init /\ [][RequeueNext]_vars

----------------------------------------------------------------------------
(* Consumers that call receive with and without a wait time *)

WaitTimes == {0, 1}

WaitNext ==
    \/ \E v \in ConcVQNames, pr \in Priorities, dl \in DelayMillis :
           ConcEnqueue("x", v, pr, dl)
    \/ \E p \in Consumers, n \in MaxNumbers, w \in WaitTimes : ConsSelect(p, n, w)
    \/ \E p \in Consumers : ConsClaim(p)
    \/ ConcTick

WaitSpec == Init /\ [][WaitNext]_vars

----------------------------------------------------------------------------
(* Consumers of two VQs of the same priority layer and of different buckets *)

BucketNext ==
    \/ \E v \in BucketVQNames, pr \in Priorities : ConcEnqueue("x", v, pr, 0)
    \/ \E p \in Consumers : LayerSelect(p)
    \/ \E p \in Consumers : LayerClaim(p)
    \/ ConcTick

BucketSpec == Init /\ [][BucketNext]_vars

----------------------------------------------------------------------------
(* Concurrent producers.  enqueue runs two inserts when the VQ is missing: *)
(* the task insert that fails on the foreign key, then, in                  *)
(* _enqueue_task_with_new_vq, the VQ insert and the task insert.  Another   *)
(* producer may run between the two.                                        *)

(* calls that are between their two inserts *)
PendingCreates == {w \in Callers : ops[w].pc = "new_vq"}

(* the foreign key of task.vqueue_name: the insert fails for a missing VQ *)
TaskInsertFails(vqueue_name) == vqueue_name \notin DOMAIN vqs

(* the key of the VQ table: the insert fails for a name that has a row *)
VqInsertFails(vqueue_name) == vqueue_name \in DOMAIN vqs

EnqueueCreate(w, task_data, vqueue_name, priority, delay_millis) ==
    /\ ops[w].pc = "idle"
    /\ Len(tasks) + Cardinality(PendingCreates) < MaxTasks
    /\ LET visible_at == EnqueueVisibleAt(delay_millis)
           task == NewTask(task_data, vqueue_name, priority, visible_at)
       IN  IF TaskInsertFails(vqueue_name)
           THEN /\ tasks' = tasks
                /\ ops' = [ops EXCEPT ![w] =
                             [NoOp EXCEPT !.pc = "new_vq", !.op = "enqueue",
                                          !.task = [data |-> task_data,
                                                    vqueue_name |-> vqueue_name,
                                                    priority |-> priority,
                                                    visible_at |-> visible_at],
                                          !.made = ops[w].made]]
           ELSE /\ tasks' = Append(tasks, task)
                /\ ops' = [ops EXCEPT ![w] =
                             [NoOp EXCEPT !.op = "enqueue", !.id = task.id,
                                          !.kind = "returned", !.val = "id",
                                          !.made = ops[w].made]]
    /\ UNCHANGED <<vqs, errors, now, cs, ret, last, rt>>

EnqueueNewVq(w) ==
    /\ ops[w].pc = "new_vq"
    /\ LET a == ops[w].task
           task == NewTask(a.data, a.vqueue_name, a.priority, a.visible_at)
       IN  IF VqInsertFails(a.vqueue_name)
           THEN /\ UNCHANGED <<tasks, vqs>>
                /\ ops' = [ops EXCEPT ![w] =
                             [NoOp EXCEPT !.op = "enqueue", !.task = a,
                                          !.kind = "IntegrityError",
                                          !.made = ops[w].made]]
           ELSE /\ vqs' = VqsWith(a.vqueue_name)
                /\ tasks' = Append(tasks, task)
                /\ ops' = [ops EXCEPT ![w] =
                             [NoOp EXCEPT !.op = "enqueue", !.task = a, !.id = task.id,
                                          !.kind = "returned", !.val = "id",
                                          !.made = Append(ops[w].made, a.vqueue_name)]]
    /\ UNCHANGED <<errors, now, cs, ret, last, rt>>

EnqTick ==
    /\ Tick
    /\ UNCHANGED <<ret, last, rt, ops>>

EnqNext ==
    \/ \E w \in Callers, d \in Payloads, v \in ConcVQNames, pr \in Priorities :
           EnqueueCreate(w, d, v, pr, 0)
    \/ \E w \in Callers : EnqueueNewVq(w)
    \/ EnqTick

EnqSpec == Init /\ [][EnqNext]_vars

----------------------------------------------------------------------------
(* Concurrent ack and nack callers.  ack and nack read the status with one *)
(* statement (_get_task_only_status) and write with another (task.save()): *)
(* another caller's statement may run between the two.                     *)

BoolVal(b) == IF b THEN "True" ELSE "False"

AckRead(w, task_id) ==
    /\ ops[w].pc = "idle"
    /\ ops' = [ops EXCEPT ![w] =
                 IF AckWrites(task_id)
                 THEN [NoOp EXCEPT !.pc = "ack_save", !.op = "ack", !.id = task_id]
                 ELSE [NoOp EXCEPT !.op = "ack", !.id = task_id, !.kind = "returned",
                                   !.val = BoolVal(AckResult(task_id))]]
    /\ UNCHANGED <<tasks, vqs, errors, now, cs, ret, last, rt>>

AckWrite(w) ==
    /\ ops[w].pc = "ack_save"
    /\ tasks' = AckSave(ops[w].id)
    /\ ops' = [ops EXCEPT ![w] =
                 [NoOp EXCEPT !.op = "ack", !.id = ops[w].id, !.kind = "returned",
                              !.val = "True"]]
    /\ UNCHANGED <<vqs, errors, now, cs, ret, last, rt>>

NackRead(w, task_id, error_messsage) ==
    /\ ops[w].pc = "idle"
    /\ ops' = [ops EXCEPT ![w] =
                 IF NackWrites(task_id)
                 THEN [NoOp EXCEPT !.pc = "nack_save", !.op = "nack", !.id = task_id,
                                   !.msg = error_messsage]
                 ELSE [NoOp EXCEPT !.op = "nack", !.id = task_id, !.msg = error_messsage,
                                   !.kind = "returned",
                                   !.val = BoolVal(NackResult(task_id))]]
    /\ UNCHANGED <<tasks, vqs, errors, now, cs, ret, last, rt>>

NackWrite(w) ==
    /\ ops[w].pc = "nack_save"
    /\ tasks' = NackSave(ops[w].id)
    /\ errors' = NackErrors(ops[w].id, ops[w].msg)
    /\ ops' = [ops EXCEPT ![w] =
                 [NoOp EXCEPT !.op = "nack", !.id = ops[w].id, !.msg = ops[w].msg,
                              !.kind = "returned", !.val = "True"]]
    /\ UNCHANGED <<vqs, now, cs, ret, last, rt>>

RaceSelect ==
    /\ ReadSelect(SeqConsumer, 1, 0)
    /\ UNCHANGED <<ret, last, rt, ops>>

RaceClaim ==
    /\ ReadClaim(SeqConsumer)
    /\ UNCHANGED <<ret, last, rt, ops>>

RaceNext ==
    \/ ConcEnqueue("x", "qa", 1, 0)
    \/ RaceSelect
    \/ RaceClaim
    \/ \E w \in Callers, i \in DOMAIN tasks : AckRead(w, i)
    \/ \E w \in Callers : AckWrite(w)
    \/ \E w \in Callers, i \in DOMAIN tasks : NackRead(w, i, "")
    \/ \E w \in Callers : NackWrite(w)
    \/ ConcTick

RaceSpec == Init /\ [][RaceNext]_vars

----------------------------------------------------------------------------
(* What the steps of a receive call do, as seen in `cs` and `ret` *)

(* _read, called by consumer p, returns a task in this step *)
ReadReturns(p) == cs[p].pc = "claim" /\ Len(ret'[p].list) = Len(ret[p].list) + 1

ReturnedId(p) == ret'[p].list[Len(ret'[p].list)].id

(* _read, called by consumer p, selects a task in this step *)
ReadSelects(p) == cs[p].pc # "claim" /\ cs'[p].pc = "claim"

(* task i is due at time ts: visible, and its VQ is not hidden *)
Due(i, ts) == tasks[i].visible_at <= ts /\ ~vqs[tasks[i].vqueue_name].hidden

----------------------------------------------------------------------------
(* C1: of the receive calls that selected the same unstarted task, at most  *)
(* one returns it, and a call returns a task only if its conditional update *)
(* changed a row.                                                           *)
C1_ExactlyOneRacerReturns ==
    /\ \A p \in Consumers, q \in Consumers :
          p # q =>
            \A i \in DOMAIN ret[p].list, j \in DOMAIN ret[q].list :
                ~ /\ ret[p].list[i].id = ret[q].list[j].id
                  /\ ret[p].pending[i]
                  /\ ret[q].pending[j]
    /\ \A p \in Consumers : \A i \in DOMAIN ret[p].list : ret[p].rows[i] = 1

(* C2: a task that receive returns belongs to a VQ that is not hidden at   *)
(* the moment the task is claimed and returned.                            *)
C2_NoHiddenTaskReturned ==
    [][\A p \in Consumers :
          ReadReturns(p) => ~vqs[tasks[ReturnedId(p)].vqueue_name].hidden]_vars

(* C3: a task that receive returns has visible_at <= the current time when *)
(* it is returned.                                                         *)
C3_NoInvisibleTaskReturned ==
    [][\A p \in Consumers :
          ReadReturns(p) => tasks[ReturnedId(p)].visible_at <= now]_vars

(* C4: when _read selects a task (which is the task it returns), no task  *)
(* that is due at that moment belongs to a VQ of strictly higher priority  *)
(* than the selected task's VQ, whatever the tasks' own priorities.        *)
C4_StrictPriorityLayering ==
    [][\A p \in Consumers :
          ReadSelects(p) =>
            \A i \in DOMAIN tasks :
                Due(i, cs'[p].ts) =>
                    vqs[tasks[i].vqueue_name].priority
                        <= vqs[cs'[p].sel.vqueue_name].priority]_vars

(* a consumer has selected a task although a due task of higher task      *)
(* priority waits in a VQ of lower priority                               *)
C4_Witness ==
    \E p \in Consumers :
        /\ cs[p].pc = "claim"
        /\ \E i \in DOMAIN tasks :
              /\ Due(i, cs[p].ts)
              /\ vqs[tasks[i].vqueue_name].priority < vqs[cs[p].sel.vqueue_name].priority
              /\ tasks[i].priority > cs[p].sel.priority

(* tasks u and t are in VQs of the same priority and the same bucket *)
SameLayerAndBucket(u, t) ==
    /\ vqs[tasks[u].vqueue_name].priority = vqs[tasks[t].vqueue_name].priority
    /\ vqs[tasks[u].vqueue_name].bucket_name = vqs[tasks[t].vqueue_name].bucket_name

(* task u is to be dispatched before task t *)
Outranks(u, t) ==
    \/ tasks[u].priority > tasks[t].priority
    \/ tasks[u].priority = tasks[t].priority /\ tasks[u].queued_at < tasks[t].queued_at

(* C5: with one caller, the task a _read selects (and returns) is outranked *)
(* by no due task of its priority layer and bucket: none has a higher       *)
(* priority, or the same priority and an earlier queued_at.                 *)
C5_DispatchOrderInBucket ==
    [][ReadSelects(SeqConsumer) =>
          \A u \in DOMAIN tasks :
              ( /\ Due(u, cs'[SeqConsumer].ts)
                /\ SameLayerAndBucket(u, cs'[SeqConsumer].sel.id) )
              => ~Outranks(u, cs'[SeqConsumer].sel.id)]_vars

(* the caller's _read has selected a task ahead of a due task of the same *)
(* bucket that was queued earlier and has a lower priority                *)
C5_Witness ==
    /\ cs[SeqConsumer].pc = "claim"
    /\ \E u \in DOMAIN tasks :
          /\ Due(u, cs[SeqConsumer].ts)
          /\ SameLayerAndBucket(u, cs[SeqConsumer].sel.id)
          /\ tasks[u].priority < cs[SeqConsumer].sel.priority
          /\ tasks[u].queued_at < tasks[cs[SeqConsumer].sel.id].queued_at

(* C6: after an enqueue without delay, a receive(1) that starts when no    *)
(* other task is due returns exactly the enqueued id with the enqueued     *)
(* payload; an ack of that id then returns true, and so does a second ack. *)
C6_RoundTrip ==
    /\ rt.stage >= 3 => rt.recv = <<[id |-> rt.id, data |-> rt.data]>>
    /\ rt.stage >= 4 => rt.ack1
    /\ rt.stage >= 5 => rt.ack2

(* the whole round trip has run, for the second task of the store *)
C6_Witness == rt.stage = 5 /\ rt.id = 2 /\ rt.data = "y"

(* C7: ack of a leased task returns true and makes it SUCCEEDED, invisible *)
(* and ended now; nack of a leased task returns true and makes it FAILED,  *)
(* invisible and ended now; nothing else of the task table changes.        *)
C7_TerminalTransitions ==
    [][\A i \in DOMAIN tasks :
          tasks[i].status = StatusLeased =>
            /\ (last'.op = "ack" /\ last'.id = i) =>
                  /\ last'.ok
                  /\ tasks' = [tasks EXCEPT ![i] =
                                 [id |-> tasks[i].id, data |-> tasks[i].data,
                                  vqueue_name |-> tasks[i].vqueue_name,
                                  priority |-> tasks[i].priority,
                                  queued_at |-> tasks[i].queued_at,
                                  status |-> 100, visible_at |-> 2147483647,
                                  ended_at |-> now]]
            /\ (last'.op = "nack" /\ last'.id = i) =>
                  /\ last'.ok
                  /\ tasks' = [tasks EXCEPT ![i] =
                                 [id |-> tasks[i].id, data |-> tasks[i].data,
                                  vqueue_name |-> tasks[i].vqueue_name,
                                  priority |-> tasks[i].priority,
                                  queued_at |-> tasks[i].queued_at,
                                  status |-> 101, visible_at |-> 2147483647,
                                  ended_at |-> now]]]_vars

(* an ack has just ended a leased task, beside another task *)
C7_Witness ==
    /\ last.op = "ack" /\ last.was = StatusLeased /\ last.ok
    /\ tasks[last.id].status = StatusSucceeded
    /\ Len(tasks) > 1

(* C8: ack of a SUCCEEDED task and nack of a FAILED task return true and   *)
(* change no table, whatever the error message.                            *)
C8_TerminalIdempotence ==
    [][\A i \in DOMAIN tasks :
          /\ (last'.op = "ack" /\ last'.id = i /\ tasks[i].status = 100) =>
                (last'.ok /\ tasks' = tasks /\ errors' = errors /\ vqs' = vqs)
          /\ (last'.op = "nack" /\ last'.id = i /\ tasks[i].status = 101) =>
                (last'.ok /\ tasks' = tasks /\ errors' = errors /\ vqs' = vqs)]_vars

(* a nack with an error message has just found its task FAILED *)
C8_Witness ==
    last.op = "nack" /\ last.was = StatusFailed /\ last.msg # "" /\ last.ok

(* C9: ack of an unknown id, of an unstarted task or of a FAILED task, and *)
(* nack of an unknown id, of an unstarted task or of a SUCCEEDED task,     *)
(* return false and change no table.                                       *)
C9_RejectedTransitions ==
    [][\A i \in TaskIdArgs :
          /\ ( /\ last'.op = "ack" /\ last'.id = i
               /\ \/ i \notin DOMAIN tasks
                  \/ tasks[i].status < 10
                  \/ tasks[i].status = 101 ) =>
                (~last'.ok /\ tasks' = tasks /\ errors' = errors /\ vqs' = vqs)
          /\ ( /\ last'.op = "nack" /\ last'.id = i
               /\ \/ i \notin DOMAIN tasks
                  \/ tasks[i].status < 10
                  \/ tasks[i].status = 100 ) =>
                (~last'.ok /\ tasks' = tasks /\ errors' = errors /\ vqs' = vqs)]_vars

(* a nack with an error message has just been refused for a SUCCEEDED task *)
C9_Witness ==
    last.op = "nack" /\ last.was = StatusSucceeded /\ last.msg # "" /\ ~last.ok

(* C10: a leased task is returned by no receive before its lease expires,  *)
(* and a receive that runs after the expiry, with no other due task,       *)
(* selects it.                                                             *)
C10_LeaseExpiryRedelivery ==
    [][\A p \in Consumers :
          /\ ReadReturns(p) =>
                ~ /\ tasks[ReturnedId(p)].status = StatusLeased
                  /\ tasks[ReturnedId(p)].visible_at > now
          /\ \A i \in DOMAIN tasks :
                ( /\ cs[p].pc = "idle" /\ cs'[p] # cs[p]
                  /\ tasks[i].status = StatusLeased
                  /\ Due(i, now)
                  /\ NoOtherDue(i) )
                => (ReadSelects(p) /\ cs'[p].sel.id = i)]_vars

(* the number of VQ inserts that created a row of name n *)
InsertCount(n) ==
    Cardinality({wk \in Callers \X (1..MaxTasks) :
                    /\ wk[2] \in DOMAIN ops[wk[1]].made
                    /\ ops[wk[1]].made[wk[2]] = n})

(* C11: under concurrent enqueues a VQ name has at most one row, created   *)
(* by exactly one insert, with the policy the configuration provider gives *)
(* for the name; and no enqueue changes or removes a row that exists.      *)
C11_AutoCreationOneRow ==
    /\ [](\A n \in ConcVQNames :
            /\ InsertCount(n) = IF n \in DOMAIN vqs THEN 1 ELSE 0
            /\ n \in DOMAIN vqs =>
                  /\ vqs[n].name = n
                  /\ vqs[n].priority = configuration_for(n).priority
                  /\ vqs[n].bucket_name = configuration_for(n).bucket_name
                  /\ vqs[n].bucket_weight = configuration_for(n).bucket_weight
                  /\ vqs[n].visibility_timeout
                        = configuration_for(n).visibility_timeout_seconds)
    /\ [][\A n \in DOMAIN vqs : n \in DOMAIN vqs' /\ vqs'[n] = vqs[n]]_vars

(* two producers found the same VQ missing, one of them created its row,   *)
(* and the store holds a task of that VQ                                    *)
C11_Witness ==
    \E w \in Callers, u \in Callers :
        /\ w # u
        /\ ops[w].made # <<>>
        /\ ops[u].op = "enqueue" /\ ops[u].pc = "idle" /\ ops[u].kind # "none"
        /\ ops[u].task.vqueue_name = ops[w].made[1]
        /\ ops[u].made = <<>>
        /\ \E i \in DOMAIN tasks : tasks[i].vqueue_name = ops[w].made[1]

(* C12: no enqueue call ends with the uniqueness error of the VQ insert:  *)
(* every call that found the VQ missing returns a task id.                 *)
C12_FirstUseRaceTolerated ==
    \A w \in Callers : ops[w].kind # "IntegrityError"

(* C13: a task whose status is SUCCEEDED or FAILED is never written again: *)
(* its status and its ended_at stay as the terminal transition left them.  *)
C13_OneTerminalTransition ==
    [][\A i \in DOMAIN tasks :
          (tasks[i].status = 100 \/ tasks[i].status = 101) => tasks'[i] = tasks[i]]_vars

(* C14: requeue of a leased task returns true and leaves it unstarted and  *)
(* visible now; requeue of an unstarted task returns true and changes      *)
(* nothing; requeue of an unknown id or of a SUCCEEDED or FAILED task      *)
(* returns false and changes nothing.                                      *)
C14_Requeue ==
    [][\A i \in TaskIdArgs :
          (last'.op = "requeue" /\ last'.id = i) =>
             IF i \notin DOMAIN tasks
             THEN last'.val = "False" /\ tasks' = tasks
             ELSE IF tasks[i].status = 50
             THEN /\ last'.val = "True"
                  /\ tasks'[i].status < 10
                  /\ tasks'[i].visible_at = now
             ELSE IF tasks[i].status < 10
             THEN last'.val = "True" /\ tasks' = tasks
             ELSE last'.val = "False" /\ tasks' = tasks]_vars

(* C15: a receive call that finds no eligible task returns a list (an     *)
(* empty one when it has no task yet) and raises nothing, with and without *)
(* a wait time.                                                            *)
C15_EmptyReceiveReturns ==
    \A p \in Consumers : ret[p].kind \in {"none", "running", "list"}

(* C16: a nack with a non-empty message that finds its task leased makes   *)
(* the task FAILED and appends one TaskError of that task, message and     *)
(* time, in the same step; every other step of every call leaves the task  *)
(* error table as it is.                                                   *)
C16_TaskErrorAppendOnly ==
    [][IF /\ last'.op = "nack"
          /\ last'.msg # ""
          /\ last'.id \in DOMAIN tasks
          /\ tasks[last'.id].status = 50
       THEN /\ errors' = errors \o <<[task_id |-> last'.id,
                                      error_messsage |-> last'.msg,
                                      happended_at |-> now]>>
            /\ tasks'[last'.id].status = 101
       ELSE errors' = errors]_vars

(* a nack with a message has failed a leased task after an earlier one did *)
C16_Witness ==
    /\ last.op = "nack" /\ last.was = StatusLeased /\ last.msg # "" /\ last.ok
    /\ Len(errors) = 2
    /\ errors[2].task_id = last.id
    /\ errors[1].task_id # last.id

(* unstarted due tasks of the VQs of the highest priority that has any *)
TopLayerDue ==
    {i \in DOMAIN tasks :
        /\ tasks[i].status < 10
        /\ Due(i, now)
        /\ \A j \in DOMAIN tasks :
              (tasks[j].status < 10 /\ Due(j, now)) =>
                 vqs[tasks[j].vqueue_name].priority <= vqs[tasks[i].vqueue_name].priority}

(* C17: every bucket of the top priority layer that has a due task and a   *)
(* positive weight can be served by the next _read: one of the tasks the   *)
(* selection may pick belongs to it, whatever the priorities and enqueue    *)
(* times of the tasks of the other buckets.                                 *)
C17_EveryDueBucketCanBeServed ==
    \A i \in TopLayerDue :
        vqs[tasks[i].vqueue_name].bucket_weight > 0 =>
            \E k \in FirstTasks(now) :
                vqs[tasks[k].vqueue_name].bucket_name = vqs[tasks[i].vqueue_name].bucket_name

(* C18: when _read returns a task, the stored task is leased and its       *)
(* visible_at is the call's current time plus the visibility timeout of    *)
(* the task's VQ.                                                          *)
C18_ReturnedTaskFreshlyLeased ==
    [][\A p \in Consumers :
          ReadReturns(p) =>
            /\ tasks'[ReturnedId(p)].status = 50
            /\ tasks'[ReturnedId(p)].visible_at
                  = cs[p].ts + vqs[tasks[ReturnedId(p)].vqueue_name].visibility_timeout]_vars

(* C19: in every state, a task is SUCCEEDED or FAILED exactly if its      *)
(* visible_at is the sentinel 2^31 - 1, and exactly if its ended_at is set. *)
C19_TerminalIffInvisibleIffEnded ==
    \A i \in DOMAIN tasks :
        /\ (tasks[i].status = 100 \/ tasks[i].status = 101)
              <=> tasks[i].visible_at = 2147483647
        /\ (tasks[i].status = 100 \/ tasks[i].status = 101)
              <=> tasks[i].ended_at # NoEndedAt

(* an ack and a nack that both read the task leased have both written it, *)
(* beside a task that is leased                                            *)
C19_Witness ==
    \E w \in Callers, u \in Callers :
        /\ ops[w].op = "ack" /\ ops[w].val = "True"
        /\ ops[u].op = "nack" /\ ops[u].val = "True"
        /\ ops[w].id = ops[u].id
        /\ tasks[ops[w].id].status = StatusSucceeded
        /\ \E j \in DOMAIN tasks : tasks[j].status = StatusLeased

(* C20: when _read returns a task, the stored task is neither SUCCEEDED   *)
(* nor FAILED.                                                             *)
C20_NoTerminalTaskDelivered ==
    [][\A p \in Consumers :
          ReadReturns(p) =>
            /\ tasks'[ReturnedId(p)].status # 100
            /\ tasks'[ReturnedId(p)].status # 101]_vars

=============================================================================
